---- MODULE Spec2Model ----
(***************************************************************************)
(* A model of goliath/worker/worker.js: the click-logging worker with its  *)
(* two routes, POST /log and GET /stats, over a key-value Counter Store.   *)
(*                                                                         *)
(* JavaScript strings are sequences of one-character strings, so that      *)
(* slice, prefix matching, parseInt and String() are computed as the code  *)
(* computes them.  JavaScript numbers are the integer-valued doubles the   *)
(* handler can produce, kept as sign and two decimal limbs because 2^53    *)
(* does not fit TLC's integers.                                            *)
(***************************************************************************)
EXTENDS Integers, Sequences, FiniteSets, TLC

(***************************************************************************)
(* Bounds of the model.                                                    *)
(***************************************************************************)
\* requests handled in one behaviour of the sequential specifications
MaxReqs == 2
\* concurrent POST /log handlers in SpecConc
NProcs == 2
\* the store returns list pages of 1..MaxPage keys
MaxPage == 2
\* clock advances (a day, or a whole metadata lifetime) in one behaviour
MaxTicks == 1

(***************************************************************************)
(* Strings.                                                                *)
(***************************************************************************)
\* String.prototype.slice(0, n)
Slice0(s, n) == SubSeq(s, 1, IF Len(s) < n THEN Len(s) ELSE n)

\* String.prototype.slice(n): the rest after the first n characters
SliceFrom(s, n) == SubSeq(s, n + 1, Len(s))

\* the store's prefix filter of list({prefix})
StartsWith(s, p) == Len(s) >= Len(p) /\ SubSeq(s, 1, Len(p)) = p

\* a string of n copies of the character c
Rep(c, n) == [i \in 1..n |-> c]

\* lexicographic order of strings by character code, as the store lists keys
CharCode(c) ==
  CASE c = " " -> 32 [] c = "-" -> 45 [] c = "0" -> 48 [] c = "1" -> 49
    [] c = "2" -> 50 [] c = "3" -> 51 [] c = "4" -> 52 [] c = "5" -> 53
    [] c = "6" -> 54 [] c = "7" -> 55 [] c = "8" -> 56 [] c = "9" -> 57
    [] c = ":" -> 58 [] c = "_" -> 95 [] c = "a" -> 97 [] c = "b" -> 98
    [] c = "c" -> 99 [] c = "n" -> 110 [] c = "o" -> 111 [] c = "p" -> 112
    [] c = "r" -> 114 [] c = "s" -> 115 [] c = "t" -> 116 [] c = "u" -> 117
    [] c = "x" -> 120 [] c = "y" -> 121 [] c = "z" -> 122
    [] OTHER -> 63

StrLess(a, b) ==
  LET n    == IF Len(a) < Len(b) THEN Len(a) ELSE Len(b)
      diff == {i \in 1..n : a[i] # b[i]}
  IN  IF diff = {} THEN Len(a) < Len(b)
      ELSE LET i == CHOOSE j \in diff : \A k \in diff : j <= k
           IN  CharCode(a[i]) < CharCode(b[i])

(***************************************************************************)
(* Numbers: parseInt(s, 10), `|| 0`, +, String(n).                         *)
(* A number is NaN or sign * (hi * 10^8 + lo).                             *)
(***************************************************************************)
Limb == 10 ^ 8

NaN == [nan |-> TRUE, neg |-> FALSE, hi |-> 0, lo |-> 0]

Num(n) == [nan |-> FALSE, neg |-> n < 0,
           hi |-> (IF n < 0 THEN -n ELSE n) \div Limb,
           lo |-> (IF n < 0 THEN -n ELSE n) % Limb]

\* 2^53 = 9007199254740992: up to here every integer is a double
MaxExact == [hi |-> 90071992, lo |-> 54740992]

MagLeq(h1, l1, h2, l2) == h1 < h2 \/ (h1 = h2 /\ l1 <= l2)

\* the double nearest to the integer hi * 10^8 + lo (below 2^54): beyond 2^53
\* only even integers are doubles, and an odd one is a tie, which goes to the
\* neighbour with the even significand, a multiple of 4 (10^8 is one)
RoundMag(hi, lo) ==
  IF MagLeq(hi, lo, MaxExact.hi, MaxExact.lo) \/ lo % 2 = 0
  THEN [hi |-> hi, lo |-> lo]
  ELSE IF (lo + 1) % 4 = 0
       THEN (IF lo + 1 = Limb THEN [hi |-> hi + 1, lo |-> 0]
                               ELSE [hi |-> hi, lo |-> lo + 1])
       ELSE [hi |-> hi, lo |-> lo - 1]

MkNum(neg, hi, lo) ==
  LET r == RoundMag(hi, lo)
  IN  [nan |-> FALSE, neg |-> neg /\ (r.hi # 0 \/ r.lo # 0), hi |-> r.hi, lo |-> r.lo]

IsDigit(c) == c \in {"0", "1", "2", "3", "4", "5", "6", "7", "8", "9"}

DigitVal(c) ==
  CASE c = "0" -> 0 [] c = "1" -> 1 [] c = "2" -> 2 [] c = "3" -> 3
    [] c = "4" -> 4 [] c = "5" -> 5 [] c = "6" -> 6 [] c = "7" -> 7
    [] c = "8" -> 8 [] c = "9" -> 9

DigitChar(d) == <<"0", "1", "2", "3", "4", "5", "6", "7", "8", "9">>[d + 1]

RECURSIVE SkipSpace(_)
SkipSpace(s) == IF s # <<>> /\ Head(s) = " " THEN SkipSpace(Tail(s)) ELSE s

\* the longest prefix of decimal digits
RECURSIVE DigitPrefix(_)
DigitPrefix(s) ==
  IF s # <<>> /\ IsDigit(Head(s)) THEN <<Head(s)>> \o DigitPrefix(Tail(s)) ELSE <<>>

\* the value of a digit string, two limbs (strings of up to 16 digits)
RECURSIVE DigitsValue(_, _, _)
DigitsValue(ds, hi, lo) ==
  IF ds = <<>> THEN [hi |-> hi, lo |-> lo]
  ELSE DigitsValue(Tail(ds), hi * 10 + lo \div (Limb \div 10),
                   (lo % (Limb \div 10)) * 10 + DigitVal(Head(ds)))

\* parseInt(s, 10): leading white space, a sign, then the longest run of
\* digits; what follows the digits is ignored; no digit at all gives NaN
ParseInt(s) ==
  LET t    == SkipSpace(s)
      neg  == t # <<>> /\ Head(t) = "-"
      body == IF t # <<>> /\ Head(t) \in {"-", "+"} THEN Tail(t) ELSE t
      ds   == DigitPrefix(body)
      v    == DigitsValue(ds, 0, 0)
  IN  IF ds = <<>> THEN NaN ELSE MkNum(neg, v.hi, v.lo)

\* JavaScript truthiness of a number: NaN and 0 are falsy
NumTruthy(x) == ~x.nan /\ (x.hi # 0 \/ x.lo # 0)

\* x || d
NumOr(x, d) == IF NumTruthy(x) THEN x ELSE d

\* x + y of two numbers, rounded to the nearest double
NumAdd(x, y) ==
  IF x.nan \/ y.nan THEN NaN
  ELSE LET sx == IF x.neg THEN -1 ELSE 1
           sy == IF y.neg THEN -1 ELSE 1
           H0 == sx * x.hi + sy * y.hi
           L0 == sx * x.lo + sy * y.lo
           neg == H0 < 0 \/ (H0 = 0 /\ L0 < 0)
           H1 == IF neg THEN -H0 ELSE H0
           L1 == IF neg THEN -L0 ELSE L0
           H2 == IF L1 < 0 THEN H1 - 1 ELSE IF L1 >= Limb THEN H1 + 1 ELSE H1
           L2 == IF L1 < 0 THEN L1 + Limb ELSE IF L1 >= Limb THEN L1 - Limb ELSE L1
       IN  MkNum(neg, H2, L2)

NumLeq(x, y) ==
  /\ ~x.nan /\ ~y.nan
  /\ \/ x.neg /\ ~y.neg
     \/ ~x.neg /\ ~y.neg /\ MagLeq(x.hi, x.lo, y.hi, y.lo)
     \/ x.neg /\ y.neg /\ MagLeq(y.hi, y.lo, x.hi, x.lo)

RECURSIVE NatDigits(_)
NatDigits(n) == IF n < 10 THEN <<DigitChar(n)>> ELSE NatDigits(n \div 10) \o <<DigitChar(n % 10)>>

\* the low limb written with all its 8 digits
PadLimb(n) == LET d == NatDigits(n) IN Rep("0", 8 - Len(d)) \o d

\* String(x) of an integer-valued number below 10^21
NumToString(x) ==
  IF x.nan THEN <<"N", "a", "N">>
  ELSE (IF x.neg THEN <<"-">> ELSE <<>>)
       \o (IF x.hi = 0 THEN NatDigits(x.lo) ELSE NatDigits(x.hi) \o PadLimb(x.lo))

(***************************************************************************)
(* Optional values: null / undefined is <<>>, a present value v is <<v>>.  *)
(***************************************************************************)
Absent == <<>>

Some(v) == <<v>>

\* (x || d) for a string or null/undefined x: the empty string is falsy too
StrOr(x, d) == IF x = Absent \/ x[1] = <<>> THEN d ELSE x[1]

(***************************************************************************)
(* Dates.  The clock counts UTC days of the year 2024 (1 = 2024-01-01).    *)
(***************************************************************************)
MonthDays == <<31, 29, 31, 30, 31, 30, 31, 31, 30, 31, 30, 31>>

RECURSIVE MonthOf(_, _)
MonthOf(n, m) == IF n <= MonthDays[m] THEN [m |-> m, d |-> n] ELSE MonthOf(n - MonthDays[m], m + 1)

TwoDigits(n) == <<DigitChar(n \div 10), DigitChar(n % 10)>>

\* Date.prototype.toISOString().slice(0, 10) of day n: "2024-MM-DD"
DayStr(n) ==
  LET md == MonthOf(n, 1)
  IN  <<"2", "0", "2", "4", "-">> \o TwoDigits(md.m) \o <<"-">> \o TwoDigits(md.d)

\* new Date().toISOString() on day n (the time of day is not modelled)
NowISO(n) == DayStr(n) \o <<"T", "1", "2", ":", "0", "0", ":", "0", "0", ".", "0", "0", "0", "Z">>

(***************************************************************************)
(* The Counter Store: key |-> [val, exp]; exp = 0 is "no expiration",      *)
(* otherwise the day on which the key expires.                             *)
(***************************************************************************)
\* expirationTtl: 60 * 60 * 24 * 30 seconds, in days
TtlDays == (60 * 60 * 24 * 30) \div (60 * 60 * 24)

EmptyStore == [k \in {} |-> [val |-> <<>>, exp |-> 0]]

\* env.CLICKS.get(key): the value, or null
KvGet(st, key) == IF key \in DOMAIN st THEN Some(st[key].val) ELSE Absent

\* env.CLICKS.put(key, value, {expirationTtl})
KvPut(st, key, value, exp) ==
  [k \in DOMAIN st \cup {key} |-> IF k = key THEN [val |-> value, exp |-> exp] ELSE st[k]]

\* the store drops a key once its expiration is reached
KvExpire(st, now) == [k \in {j \in DOMAIN st : st[j].exp = 0 \/ st[j].exp > now} |-> st[k]]

RECURSIVE SortKeys(_)
SortKeys(S) ==
  IF S = {} THEN <<>>
  ELSE LET m == CHOOSE k \in S : \A j \in S \ {k} : StrLess(k, j)
       IN  <<m>> \o SortKeys(S \ {m})

\* env.CLICKS.list({prefix, cursor}): one page of at most ps key names in
\* lexicographic order; cursor is the number of names already returned, and
\* is absent once the listing is complete
KvList(st, prefix, cursor, ps) ==
  LET all   == SortKeys({k \in DOMAIN st : StartsWith(k, prefix)})
      from  == IF cursor = Absent THEN 0 ELSE cursor[1]
      upto  == IF from + ps < Len(all) THEN from + ps ELSE Len(all)
  IN  [keys   |-> SubSeq(all, from + 1, upto),
       cursor |-> IF upto < Len(all) THEN Some(upto) ELSE Absent]

(***************************************************************************)
(* Key names.                                                              *)
(***************************************************************************)
ClickNs == <<"c", "l", "i", "c", "k", ":">>

MetaNs == <<"m", "e", "t", "a", ":">>

\* `click:${day}:`
ClickPrefix(day) == ClickNs \o day \o <<":">>

\* `click:${day}:${ad_id}`
ClickKey(day, ad_id) == ClickPrefix(day) \o ad_id

\* `meta:${ad_id}`
MetaKey(ad_id) == MetaNs \o ad_id

(***************************************************************************)
(* JSON.stringify({genre, page_id, page_url}).                             *)
(***************************************************************************)
\* a quote or a backslash gets a backslash before it (halving the string
\* keeps the recursion shallow)
RECURSIVE JsonEscape(_)
JsonEscape(s) ==
  IF s = <<>> THEN <<>>
  ELSE IF Len(s) = 1 THEN (IF s[1] \in {"\"", "\\"} THEN <<"\\", s[1]>> ELSE s)
  ELSE JsonEscape(SubSeq(s, 1, Len(s) \div 2)) \o JsonEscape(SubSeq(s, Len(s) \div 2 + 1, Len(s)))

JsonString(s) == <<"\"">> \o JsonEscape(s) \o <<"\"">>

MetaJson(genre, page_id, page_url) ==
  <<"{">> \o JsonString(<<"g", "e", "n", "r", "e">>) \o <<":">> \o JsonString(genre)
  \o <<",">> \o JsonString(<<"p", "a", "g", "e", "_", "i", "d">>) \o <<":">> \o JsonString(page_id)
  \o <<",">> \o JsonString(<<"p", "a", "g", "e", "_", "u", "r", "l">>) \o <<":">> \o JsonString(page_url)
  \o <<"}">>

(***************************************************************************)
(* The by_ad_id object of GET /stats: a plain `{}`, so a property read     *)
(* falls through to Object.prototype.  A JavaScript value is a number, a   *)
(* string, undefined, an inherited function or Object.prototype itself.    *)
(***************************************************************************)
JsNum(x) == [t |-> "num", n |-> x, s |-> <<>>]

JsStr(s) == [t |-> "str", n |-> NaN, s |-> s]

JsUndefined == [t |-> "undefined", n |-> NaN, s |-> <<>>]

\* an inherited built-in function; s is its name
JsFn(name) == [t |-> "fn", n |-> NaN, s |-> name]

\* Object.prototype, the value of the inherited accessor __proto__
JsProto == [t |-> "obj", n |-> NaN, s |-> <<>>]

ProtoName == <<"_", "_", "p", "r", "o", "t", "o", "_", "_">>

CtorName == <<"c", "o", "n", "s", "t", "r", "u", "c", "t", "o", "r">>

ToStringName == <<"t", "o", "S", "t", "r", "i", "n", "g">>

\* the methods every plain object inherits (those the model's ad_ids can hit)
ProtoFns == {CtorName, ToStringName}

\* the name a built-in function prints under: constructor is Object
FnPrintName(name) == IF name = CtorName THEN <<"O", "b", "j", "e", "c", "t">> ELSE name

\* Function.prototype.toString of a built-in: "function NAME() { [native code] }"
FnSource(name) ==
  <<"f", "u", "n", "c", "t", "i", "o", "n", " ">> \o FnPrintName(name)
  \o <<"(", ")", " ", "{", " ", "[", "n", "a", "t", "i", "v", "e", " ",
       "c", "o", "d", "e", "]", " ", "}">>

ObjectObject == <<"[", "o", "b", "j", "e", "c", "t", " ", "O", "b", "j", "e", "c", "t", "]">>

EmptyObj == [k \in {} |-> JsUndefined]

\* by_ad_id[ad_id]: an own property, else what Object.prototype has
ObjGet(obj, k) ==
  IF k \in DOMAIN obj THEN obj[k]
  ELSE IF k = ProtoName THEN JsProto
  ELSE IF k \in ProtoFns THEN JsFn(k)
  ELSE JsUndefined

\* by_ad_id[ad_id] = v: the inherited __proto__ setter ignores a value that is
\* neither an object nor null; any other name becomes an own property
ObjSet(obj, k, v) ==
  IF k = ProtoName /\ k \notin DOMAIN obj THEN obj
  ELSE [j \in DOMAIN obj \cup {k} |-> IF j = k THEN v ELSE obj[j]]

JsTruthy(v) ==
  CASE v.t = "num" -> NumTruthy(v.n)
    [] v.t = "str" -> v.s # <<>>
    [] v.t = "undefined" -> FALSE
    [] OTHER -> TRUE

\* ToPrimitive then ToString of the left operand of a string concatenation
JsToString(v) ==
  CASE v.t = "num" -> NumToString(v.n)
    [] v.t = "str" -> v.s
    [] v.t = "fn" -> FnSource(v.s)
    [] v.t = "obj" -> ObjectObject
    [] OTHER -> <<"u", "n", "d", "e", "f", "i", "n", "e", "d">>

\* a + b where b is a number: numeric addition only if a is a number too
JsPlus(a, b) ==
  IF a.t = "num" THEN JsNum(NumAdd(a.n, b)) ELSE JsStr(JsToString(a) \o NumToString(b))

(***************************************************************************)
(* Requests and responses.                                                 *)
(***************************************************************************)
LogPath == <<"/", "l", "o", "g">>

StatsPath == <<"/", "s", "t", "a", "t", "s">>

Bearer == <<"B", "e", "a", "r", "e", "r", " ">>

\* a JSON body: kind "bad" does not parse; "null", "number", "string" and
\* "array" are JSON values without the fields; "object" carries each field
\* as Absent or Some(string)
Body(kind, ts, ad_id, genre, page_id, page_url) ==
  [kind |-> kind, ts |-> ts, ad_id |-> ad_id, genre |-> genre,
   page_id |-> page_id, page_url |-> page_url]

NoFields(kind) == Body(kind, Absent, Absent, Absent, Absent, Absent)

Request(method, path, auth, days, body) ==
  [method |-> method, path |-> path, auth |-> auth, days |-> days, body |-> body]

\* a response: status, text body, and for /stats the JSON {days, by_ad_id}
Response(status, text) == [status |-> status, text |-> text, days |-> 0, by_ad_id |-> EmptyObj]

\* an exception nobody catches: the host answers with its own error response
Unhandled == Response(500, "TypeError")

\* what a handler returns: the response, the store it leaves, the store
\* operations it issued in order
Result(resp, st, ops) == [resp |-> resp, store |-> st, ops |-> ops]

Op(op, key) == [op |-> op, key |-> key]

(***************************************************************************)
(* fetch(request, env): POST /log.                                         *)
(***************************************************************************)
AdIdMax == 120

GenreMax == 80

PageIdMax == 80

PageUrlMax == 300

\* (body.f || "").toString().slice(0, n)
Field(f, n) == Slice0(StrOr(f, <<>>), n)

\* AdIdOf without its slice
AdIdOfNoSlice(body) == StrOr(body.ad_id, <<>>)

\* const ad_id = (body.ad_id || "").toString().slice(0, 120)
AdIdOf(body) == Field(body.ad_id, AdIdMax)

\* const ts = (body.ts || new Date().toISOString()).toString(); ts.slice(0, 10)
DayOf(body, now) == Slice0(StrOr(body.ts, NowISO(now)), 10)

\* JSON.stringify({genre, page_id, page_url}) of the truncated fields
MetaOf(body) ==
  MetaJson(Field(body.genre, GenreMax), Field(body.page_id, PageIdMax),
           Field(body.page_url, PageUrlMax))

\* ReadCount with 1 for its `|| 0` and for its "0": a counter starts from one
ReadCountFromOne(st, key) == NumOr(ParseInt(StrOr(KvGet(st, key), <<"1">>)), Num(1))

\* ReadCount without its `|| 0`: a value that is no number is read as NaN
ReadCountNoFallback(st, key) == ParseInt(StrOr(KvGet(st, key), <<"0">>))

\* parseInt((await env.CLICKS.get(key)) || "0", 10) || 0
ReadCount(st, key) == NumOr(ParseInt(StrOr(KvGet(st, key), <<"0">>)), Num(0))

\* String(cur + 1)
NextCount(cur) == NumToString(NumAdd(cur, Num(1)))

\* the answer the handler gives before it touches the store, or Absent:
\* "bad json", the TypeError of reading a property of null, "missing ad_id"
LogReject(body) ==
  IF body.kind = "bad" THEN Some(Response(400, "bad json"))
  ELSE IF body.kind = "null" THEN Some(Unhandled)
  ELSE IF AdIdOf(body) = <<>> THEN Some(Response(400, "missing ad_id"))
  ELSE Absent

\* LogAccept that puts the metadata only where there is none yet
LogAcceptKeepMeta(body, st, now, ad_id, key) ==
  Result(Response(200, "ok"),
         IF MetaKey(ad_id) \in DOMAIN st
         THEN KvPut(st, key, NextCount(ReadCount(st, key)), 0)
         ELSE KvPut(KvPut(st, key, NextCount(ReadCount(st, key)), 0),
                    MetaKey(ad_id), MetaOf(body), now + TtlDays),
         <<Op("get", key), Op("put", key), Op("put", MetaKey(ad_id))>>)

\* lines 30-36 for the counter key `key` of the event
LogAccept(body, st, now, ad_id, key) ==
  Result(Response(200, "ok"),
         KvPut(KvPut(st, key, NextCount(ReadCount(st, key)), 0),
               MetaKey(ad_id), MetaOf(body), now + TtlDays),
         <<Op("get", key), Op("put", key), Op("put", MetaKey(ad_id))>>)

LogResult(body, st, now, reject) ==
  IF reject # Absent THEN Result(reject[1], st, <<>>)
  ELSE LogAccept(body, st, now, AdIdOf(body), ClickKey(DayOf(body, now), AdIdOf(body)))

\* the whole POST /log handler, run without interruption
HandleLog(r, st, now) == LogResult(r.body, st, now, LogReject(r.body))

(***************************************************************************)
(* fetch(request, env): GET /stats.                                        *)
(***************************************************************************)
\* IsAuthed without its `env.STATS_TOKEN &&`: an undefined secret is spelled
\* "undefined" by the template string
IsAuthedTemplateOnly(auth, secret) ==
  StrOr(auth, <<>>) =
    Bearer \o (IF secret = Absent THEN <<"u", "n", "d", "e", "f", "i", "n", "e", "d">>
                                  ELSE secret[1])

\* env.STATS_TOKEN && auth === `Bearer ${env.STATS_TOKEN}`, with
\* auth = request.headers.get("authorization") || ""
IsAuthed(auth, secret) ==
  /\ StrOr(secret, <<>>) # <<>>
  /\ StrOr(auth, <<>>) = Bearer \o secret[1]

NumMin(x, y) == IF NumLeq(x, y) THEN x ELSE y

NumMax(x, y) == IF NumLeq(x, y) THEN y ELSE x

\* DaysOf without its Math.min(30, ...)
DaysOfNoCap(days) ==
  LET n == NumMax(Num(1), NumOr(ParseInt(StrOr(days, <<"7">>)), Num(7)))
  IN  n.lo

\* Math.max(1, Math.min(30, parseInt(searchParams.get("days") || "7", 10) || 7))
DaysOf(days) ==
  LET n == NumMax(Num(1), NumMin(Num(30), NumOr(ParseInt(StrOr(days, <<"7">>)), Num(7))))
  IN  n.lo

\* the pages the do { list } while (cursor) loop gets for one prefix
RECURSIVE ListPages(_, _, _, _)
ListPages(st, prefix, cursor, ps) ==
  LET res == KvList(st, prefix, cursor, ps)
  IN  <<res.keys>> \o (IF res.cursor # Absent THEN ListPages(st, prefix, res.cursor, ps)
                                               ELSE <<>>)

Visit(op, key, prefix) == [op |-> op, key |-> key, prefix |-> prefix]

\* one page: the list call, then a get for each key name of the page
PageVisits(prefix, keys) ==
  <<Visit("list", prefix, prefix)>> \o [i \in 1..Len(keys) |-> Visit("get", keys[i], prefix)]

RECURSIVE Concat(_)
Concat(ss) == IF ss = <<>> THEN <<>> ELSE Head(ss) \o Concat(Tail(ss))

\* the store calls of one day of the window, in order
DayVisits(st, prefix, ps) ==
  LET pages == ListPages(st, prefix, Absent, ps)
  IN  Concat([i \in 1..Len(pages) |-> PageVisits(prefix, pages[i])])

\* for (let i = 0; i < days; i++): the day is today minus i days
RECURSIVE ScanDays(_, _, _, _, _)
ScanDays(st, now, i, days, ps) ==
  IF i >= days THEN <<>>
  ELSE DayVisits(st, ClickPrefix(DayStr(now - i)), ps) \o ScanDays(st, now, i + 1, days, ps)

IsGet(v) == v.op = "get"

\* by_ad_id[ad_id] = (by_ad_id[ad_id] || 0) + v for one key name k
AddKey(st, by, k, prefix) ==
  LET ad_id == SliceFrom(k, Len(prefix))
      old   == ObjGet(by, ad_id)
  IN  ObjSet(by, ad_id, JsPlus((IF JsTruthy(old) THEN old ELSE JsNum(Num(0))),
                               ReadCount(st, k)))

\* by_ad_id after the gets of the visits from the i-th on
RECURSIVE Accumulate(_, _, _, _)
Accumulate(st, gets, i, by) ==
  IF i > Len(gets) THEN by
  ELSE Accumulate(st, gets, i + 1, AddKey(st, by, gets[i].key, gets[i].prefix))

\* Response.json({days, by_ad_id}) once the loops have made their visits
StatsResult(st, days, visits) ==
  Result([status |-> 200, text |-> "json", days |-> days,
          by_ad_id |-> Accumulate(st, SelectSeq(visits, IsGet), 1, EmptyObj)],
         st, [i \in 1..Len(visits) |-> Op(visits[i].op, visits[i].key)])

StatsScan(st, now, days, ps) == StatsResult(st, days, ScanDays(st, now, 0, days, ps))

\* the whole GET /stats handler; ps is the page size the store lists with
HandleStats(r, st, now, secret, ps) ==
  IF ~IsAuthed(r.auth, secret) THEN Result(Response(401, "unauthorized"), st, <<>>)
  ELSE StatsScan(st, now, DaysOf(r.days), ps)

(***************************************************************************)
(* fetch(request, env): the dispatch.                                      *)
(***************************************************************************)
IsLogRoute(r) == r.path = LogPath /\ r.method = "POST"

\* IsStatsRoute without the test of the method
IsStatsRouteAnyMethod(r) == r.path = StatsPath

IsStatsRoute(r) == r.path = StatsPath /\ r.method = "GET"

Fetch(r, st, now, secret, ps) ==
  IF IsLogRoute(r) THEN HandleLog(r, st, now)
  ELSE IF IsStatsRoute(r) THEN HandleStats(r, st, now, secret, ps)
  ELSE Result(Response(404, "not found"), st, <<>>)

(***************************************************************************)
(* State.                                                                  *)
(***************************************************************************)
VARIABLES
  store,    \* the Counter Store (env.CLICKS)
  clock,    \* today's UTC day
  secret,   \* env.STATS_TOKEN: Absent or Some(string)
  req,      \* the request handled last
  resp,     \* its response
  ops,      \* the store operations its handler issued, in order
  before,   \* the store as that handler found it
  nreq,     \* requests handled so far
  nticks,   \* clock advances so far
  store0,   \* the store the behaviour started from
  hits,     \* counter key |-> POST /log requests answered 200 for it
  lastEvt,  \* truncated ad_id |-> the fields of its last valid event
  pc,       \* SpecConc: where each concurrent handler stands
  pbody,    \* SpecConc: the body each handler was given
  pcur,     \* SpecConc: the local `cur` of each handler
  presp     \* SpecConc: the response of each handler

vars == <<store, clock, secret, req, resp, ops, before, nreq, nticks, store0,
          hits, lastEvt, pc, pbody, pcur, presp>>

seqVars == <<store, clock, secret, req, resp, ops, before, nreq, nticks, store0,
             hits, lastEvt>>

concVars == <<pc, pbody, pcur, presp>>

(***************************************************************************)
(* Inputs.                                                                 *)
(***************************************************************************)
\* the first day of a behaviour: 2024-02-29
Day0 == 31 + 29

A1 == <<"a">>

B2 == <<"b">>

\* ad_ids of 120, 121 and 121 characters; the last two share their first 120
X119y == Rep("x", AdIdMax - 1) \o <<"y">>

X120y == Rep("x", AdIdMax) \o <<"y">>

X120z == Rep("x", AdIdMax) \o <<"z">>

\* the {genre, page_id, page_url} a client may send
FieldInputs ==
  { [genre |-> Absent, page_id |-> Absent, page_url |-> Absent],
    [genre |-> Some(<<"g", "\"">>), page_id |-> Some(<<"p">>), page_url |-> Some(<<"u">>)],
    [genre |-> Some(Rep("g", GenreMax + 1)), page_id |-> Some(Rep("p", PageIdMax + 1)),
     page_url |-> Some(Rep("u", PageUrlMax + 1))] }

\* bodies that are not objects with fields
OddBodies == {NoFields("bad"), NoFields("null"), NoFields("number")}

\* bodies of SpecLog: ad_ids around the length limit, no ts, a well-formed
\* and a malformed one
CountBodies(now) ==
  {NoFields("bad")} \cup
  { Body("object", ts, ad, Absent, Absent, Absent) :
      ts \in {Absent, Some(NowISO(now - 1)), Some(<<"2", "0", "2", "4">>)},
      ad \in {Some(A1), Some(X120y), Some(X120z)} }

\* bodies of SpecMeta: every choice of fields for ad_ids around the limit
MetaBodies ==
  {NoFields("bad")} \cup
  { Body("object", Absent, ad, f.genre, f.page_id, f.page_url) :
      ad \in {Some(A1), Some(X119y), Some(X120y), Some(X120z)},
      f \in FieldInputs }

\* bodies of Spec: every kind of JSON value, ad_id missing, empty and present
RouteBodies ==
  OddBodies \cup
  { Body("object", Absent, ad, Some(<<"g">>), Absent, Absent) :
      ad \in {Absent, Some(<<>>), Some(A1)} }

\* bodies of SpecStats: events of today and yesterday, among them ad_ids that
\* name properties every object inherits
StatBodies(now) ==
  { Body("object", Absent, ad, Absent, Absent, Absent) :
      ad \in {Some(A1), Some(CtorName), Some(ProtoName)} }
  \cup {Body("object", Some(DayStr(now - 1)), Some(A1), Absent, Absent, Absent)}

\* bodies of SpecConc: two events of one ad, one of another, one rejected
ConcBodies ==
  { Body("object", Absent, Some(A1), Absent, Absent, Absent),
    Body("object", Absent, Some(A1), Some(<<"g">>), Absent, Absent),
    Body("object", Absent, Some(B2), Absent, Absent, Absent),
    Body("object", Absent, Absent, Absent, Absent, Absent) }

Token == <<"s", "3">>

Secrets == {Absent, Some(<<>>), Some(Token)}

\* Authorization headers: none, no token, the right one, a longer token, the literal a
\* template string makes of an undefined secret
Auths ==
  {Absent, Some(Bearer), Some(Bearer \o Token), Some(Bearer \o Token \o <<"x">>),
   Some(Bearer \o <<"u", "n", "d", "e", "f", "i", "n", "e", "d">>)}

DaysInputs ==
  {Absent, Some(<<>>), Some(<<"0">>), Some(<<"1">>), Some(<<"2">>), Some(<<"3", "1">>),
   Some(<<"-", "3">>), Some(<<"a", "b", "c">>), Some(<<"5", "a", "b", "c">>)}

\* the days parameters sent along with every Authorization header
FewDays == {Absent, Some(<<"2">>), Some(<<"a", "b", "c">>)}

Methods == {"GET", "POST"}

Paths == {LogPath, StatsPath, LogPath \o <<"/">>}

\* counter values a store may hold when a behaviour starts: none, decimal
\* strings, strings that are not numbers, and values at the edge of 2^53
StartValues ==
  {Absent, Some(<<"4">>), Some(<<"4", "x">>), Some(<<"-", "2">>), Some(<<"a", "b", "c">>),
   Some(<<"9", "0", "0", "7", "1", "9", "9", "2", "5", "4", "7", "4", "0", "9", "9", "1">>),
   Some(<<"9", "0", "0", "7", "1", "9", "9", "2", "5", "4", "7", "4", "0", "9", "9", "4">>)}

\* the store with one counter, of today's day and ad_id "a", holding v
StartStore(v) ==
  IF v = Absent THEN EmptyStore ELSE KvPut(EmptyStore, ClickKey(DayStr(Day0), A1), v[1], 0)

\* the store after three days of events: a=3 yesterday, a=2 and b=5 today,
\* a=4 forty days ago, and the metadata of both ads
ExampleStore ==
  LET s1 == KvPut(EmptyStore, ClickKey(DayStr(Day0 - 1), A1), <<"3">>, 0)
      s2 == KvPut(s1, ClickKey(DayStr(Day0), A1), <<"2">>, 0)
      s3 == KvPut(s2, ClickKey(DayStr(Day0), B2), <<"5">>, 0)
      s4 == KvPut(s3, ClickKey(DayStr(Day0 - 40), A1), <<"4">>, 0)
      s5 == KvPut(s4, MetaKey(A1), MetaJson(<<>>, <<>>, <<>>), Day0 + TtlDays)
  IN  KvPut(s5, MetaKey(B2), MetaJson(<<>>, <<>>, <<>>), Day0 + TtlDays)

(***************************************************************************)
(* Sequential handling: each request is handled to its end before the next *)
(* one starts.                                                             *)
(***************************************************************************)
\* a handled request, with the day it was handled on
Stamp(r, day) ==
  [method |-> r.method, path |-> r.path, auth |-> r.auth, days |-> r.days,
   body |-> r.body, day |-> day]

NoRequest == Stamp(Request("NONE", <<>>, Absent, Absent, NoFields("none")), 0)

\* an event as it was sent, the day it was handled on, and the event the same
\* truncated ad_id had before it (prev), if it had one
Event(body, day, prev) ==
  [ad_id |-> body.ad_id, genre |-> body.genre, page_id |-> body.page_id,
   page_url |-> body.page_url, day |-> day, prev |-> prev]

NoResponse == Response(0, "none")

InitCommon ==
  /\ clock = Day0
  /\ req = NoRequest
  /\ resp = NoResponse
  /\ ops = <<>>
  /\ before = store
  /\ nreq = 0
  /\ nticks = 0
  /\ store0 = store
  /\ hits = [k \in {} |-> 0]
  /\ lastEvt = [k \in {} |-> 0]
  /\ pc = <<>>
  /\ pbody = <<>>
  /\ pcur = <<>>
  /\ presp = <<>>

\* the bookkeeping of a handled request: r was answered res
Handled(r, res, ok, key, ad) ==
  /\ nreq' = nreq + 1
  /\ req' = Stamp(r, clock)
  /\ resp' = res.resp
  /\ ops' = res.ops
  /\ before' = store
  /\ store' = res.store
  /\ hits' = IF ok
             THEN [k \in DOMAIN hits \cup {key} |->
                     IF k = key THEN (IF k \in DOMAIN hits THEN hits[k] ELSE 0) + 1
                     ELSE hits[k]]
             ELSE hits
  /\ lastEvt' = IF ok
                THEN [a \in DOMAIN lastEvt \cup {ad} |->
                        IF a = ad
                        THEN Event(r.body, clock,
                                   IF a \in DOMAIN lastEvt
                                   THEN Some(Event(lastEvt[a], lastEvt[a].day, Absent))
                                   ELSE Absent)
                        ELSE lastEvt[a]]
                ELSE lastEvt
  /\ UNCHANGED <<clock, secret, nticks, store0, pc, pbody, pcur, presp>>

\* one request handled from its first line to its response
Handle(r, ps) ==
  /\ nreq < MaxReqs
  /\ \E res \in {Fetch(r, store, clock, secret, ps)} :
       \E ok \in {IsLogRoute(r) /\ res.resp.status = 200} :
         \E ad \in {AdIdOf(r.body)} :
           \E key \in {ClickKey(DayOf(r.body, clock), ad)} :
             Handled(r, res, ok, key, ad)

\* POST /log with a body out of B
LogRequest(B) ==
  \E b \in B : \E r \in {Request("POST", LogPath, Absent, Absent, b)} : Handle(r, 1)

\* GET /stats; the store picks the page size of its listings
StatsRequest(A, D, P) ==
  \E a \in A, d \in D, ps \in P :
    \E r \in {Request("GET", StatsPath, a, d, NoFields("none"))} : Handle(r, ps)

\* any other method and path
OtherRequest ==
  \E m \in Methods, p \in Paths, a \in {Absent, Some(Bearer \o Token)} :
    /\ ~(m = "POST" /\ p = LogPath)
    /\ ~(m = "GET" /\ p = StatsPath)
    /\ \E r \in {Request(m, p, a, Absent, Body("object", Absent, Some(A1), Absent, Absent, Absent))} :
         Handle(r, 1)

\* time passes: a day, or a whole metadata lifetime; expired keys are gone
Tick ==
  \E d \in {1, TtlDays} :
    /\ nticks < MaxTicks
    /\ nticks' = nticks + 1
    /\ clock' = clock + d
    /\ store' = KvExpire(store, clock + d)
    /\ UNCHANGED <<secret, req, resp, ops, before, nreq, store0, hits, lastEvt,
                   pc, pbody, pcur, presp>>

\* the worker with its routes and its authorization
Init ==
  /\ store \in {EmptyStore, ExampleStore}
  /\ secret \in Secrets
  /\ InitCommon

Next ==
  \/ LogRequest(RouteBodies)
  \/ StatsRequest(Auths, FewDays, {1})
  \/ OtherRequest
  \/ Tick

Spec == Init /\ [][Next]_vars

\* authorized GET /stats over stores that events fill
InitStats ==
  /\ store \in {EmptyStore, ExampleStore}
  /\ secret = Some(Token)
  /\ InitCommon

NextStats ==
  \/ LogRequest(StatBodies(clock))
  \/ StatsRequest({Some(Bearer \o Token)}, DaysInputs, 1..MaxPage)
  \/ Tick

SpecStats == InitStats /\ [][NextStats]_vars

\* POST /log alone, on a store whose counter may hold any string
InitLog ==
  /\ store \in {StartStore(v) : v \in StartValues}
  /\ secret = Some(Token)
  /\ InitCommon

NextLog == LogRequest(CountBodies(clock)) \/ Tick

SpecLog == InitLog /\ [][NextLog]_vars

\* POST /log alone, on an empty store, with every choice of fields
InitMeta ==
  /\ store = EmptyStore
  /\ secret = Some(Token)
  /\ InitCommon

NextMeta == LogRequest(MetaBodies) \/ Tick

SpecMeta == InitMeta /\ [][NextMeta]_vars

(***************************************************************************)
(* Concurrent handling: NProcs POST /log handlers run at once, each        *)
(* suspended at its awaits (request.json(), get, put, put).                *)
(***************************************************************************)
Procs == 1..NProcs

KeyOf(body) == ClickKey(DayOf(body, Day0), AdIdOf(body))

InitConc ==
  /\ store \in {StartStore(v) : v \in StartValues}
  /\ secret = Some(Token)
  /\ clock = Day0
  /\ req = NoRequest
  /\ resp = NoResponse
  /\ ops = <<>>
  /\ before = store
  /\ nreq = 0
  /\ nticks = 0
  /\ store0 = store
  /\ hits = [k \in {} |-> 0]
  /\ lastEvt = [k \in {} |-> 0]
  /\ pc = [p \in Procs |-> "start"]
  /\ pbody \in [Procs -> ConcBodies]
  /\ pcur = [p \in Procs |-> Num(0)]
  /\ presp = [p \in Procs |-> NoResponse]

\* lines 10-27: the body is parsed and checked
Parse(p) ==
  /\ pc[p] = "start"
  /\ IF LogReject(pbody[p]) # Absent
     THEN /\ pc' = [pc EXCEPT ![p] = "done"]
          /\ presp' = [presp EXCEPT ![p] = LogReject(pbody[p])[1]]
     ELSE /\ pc' = [pc EXCEPT ![p] = "get"]
          /\ presp' = presp
  /\ UNCHANGED <<pbody, pcur>>
  /\ UNCHANGED seqVars

\* line 30: const cur = parseInt((await env.CLICKS.get(key)) || "0", 10) || 0
GetCount(p) ==
  /\ pc[p] = "get"
  /\ pcur' = [pcur EXCEPT ![p] = ReadCount(store, KeyOf(pbody[p]))]
  /\ pc' = [pc EXCEPT ![p] = "put"]
  /\ UNCHANGED <<pbody, presp>>
  /\ UNCHANGED seqVars

\* line 31: await env.CLICKS.put(key, String(cur + 1))
PutCount(p) ==
  /\ pc[p] = "put"
  /\ store' = KvPut(store, KeyOf(pbody[p]), NextCount(pcur[p]), 0)
  /\ pc' = [pc EXCEPT ![p] = "meta"]
  /\ UNCHANGED <<pbody, pcur, presp>>
  /\ UNCHANGED <<clock, secret, req, resp, ops, before, nreq, nticks, store0, hits, lastEvt>>

\* lines 34-36: the metadata put and the response
PutMeta(p) ==
  /\ pc[p] = "meta"
  /\ store' = KvPut(store, MetaKey(AdIdOf(pbody[p])), MetaOf(pbody[p]), clock + TtlDays)
  /\ pc' = [pc EXCEPT ![p] = "done"]
  /\ presp' = [presp EXCEPT ![p] = Response(200, "ok")]
  /\ UNCHANGED <<pbody, pcur>>
  /\ UNCHANGED <<clock, secret, req, resp, ops, before, nreq, nticks, store0, hits, lastEvt>>

NextConc == \E p \in Procs : Parse(p) \/ GetCount(p) \/ PutCount(p) \/ PutMeta(p)

SpecConc == InitConc /\ [][NextConc]_vars

(***************************************************************************)
(* Integers of any size, for stating what a counter should hold: sign and  *)
(* two decimal limbs, added without rounding.                              *)
(***************************************************************************)
IntOf(neg, hi, lo) == [neg |-> neg /\ (hi # 0 \/ lo # 0), hi |-> hi, lo |-> lo]

TwoTo53 == IntOf(FALSE, MaxExact.hi, MaxExact.lo)

\* the integer a stored string starts with (white space and a sign first), 0
\* if it starts with none
ExactInt(s) ==
  LET t    == SkipSpace(s)
      body == IF t # <<>> /\ Head(t) \in {"-", "+"} THEN Tail(t) ELSE t
      v    == DigitsValue(DigitPrefix(body), 0, 0)
  IN  IntOf(t # <<>> /\ Head(t) = "-", v.hi, v.lo)

\* the counter of key k read as an integer; a missing key counts as 0
CounterInt(st, k) == IF k \in DOMAIN st THEN ExactInt(st[k].val) ELSE IntOf(FALSE, 0, 0)

\* x + n for a natural number n below 10^8
IntPlus(x, n) ==
  LET L0 == (IF x.neg THEN -x.lo ELSE x.lo) + n
      H0 == IF x.neg THEN -x.hi ELSE x.hi
      neg == H0 < 0 \/ (H0 = 0 /\ L0 < 0)
      H1 == IF neg THEN -H0 ELSE H0
      L1 == IF neg THEN -L0 ELSE L0
  IN  IntOf(neg,
            IF L1 < 0 THEN H1 - 1 ELSE IF L1 >= Limb THEN H1 + 1 ELSE H1,
            IF L1 < 0 THEN L1 + Limb ELSE IF L1 >= Limb THEN L1 - Limb ELSE L1)

IntLeq(x, y) ==
  \/ x.neg /\ ~y.neg
  \/ ~x.neg /\ ~y.neg /\ MagLeq(x.hi, x.lo, y.hi, y.lo)
  \/ x.neg /\ y.neg /\ MagLeq(y.hi, y.lo, x.hi, x.lo)

IntLess(x, y) == IntLeq(x, y) /\ x # y

(***************************************************************************)
(* C1.  N requests for one (day, ad_id), handled one after another, raise  *)
(* the counter by N.                                                       *)
(***************************************************************************)
\* C1 as stated: after any number of sequentially handled POST /log requests,
\* every counter key holds what it held at the start plus the number of
\* requests answered 200 for it, whatever the store started with.
C1_AnyStart ==
  \A k \in DOMAIN hits : CounterInt(store, k) = IntPlus(CounterInt(store0, k), hits[k])

\* C1 amended: the same, for the keys whose starting value is at least -2^53
\* and whose starting value plus the number of requests is at most 2^53.
C1_CounterAdvances ==
  \A k \in DOMAIN hits :
    /\ IntLeq(IntOf(TRUE, MaxExact.hi, MaxExact.lo), CounterInt(store0, k))
    /\ IntLeq(IntPlus(CounterInt(store0, k), hits[k]), TwoTo53)
    => CounterInt(store, k) = IntPlus(CounterInt(store0, k), hits[k])

\* two requests have raised a counter that started at 4 to 6
C1_Witness ==
  \E k \in DOMAIN hits :
    hits[k] = 2 /\ k \in DOMAIN store0 /\ store0[k].val = <<"4">> /\ store[k].val = <<"6">>

(***************************************************************************)
(* What the last handler did, read off the recorded request and response.  *)
(***************************************************************************)
WasLog == req.method = "POST" /\ req.path = LogPath

WasStats == req.method = "GET" /\ req.path = StatsPath

NoPut == \A i \in 1..Len(ops) : ops[i].op # "put"

\* the store holds what it held before the request, less what expired since
StoreUntouched == store = KvExpire(before, clock)

(***************************************************************************)
(* C2.  A POST /log whose body is JSON and has no ad_id is answered 400    *)
(* and puts nothing.                                                       *)
(***************************************************************************)
\* C2: every POST /log whose body parses as JSON, whatever JSON value it is,
\* and whose ad_id is missing or empty is answered 400, and its handler puts
\* nothing: the store is as it was.
C2_MissingAdIdIs400 ==
  (WasLog /\ req.body.kind # "bad" /\ StrOr(req.body.ad_id, <<>>) = <<>>)
    => resp.status = 400 /\ NoPut /\ StoreUntouched

\* the part of C2 that does hold of every such request: nothing is put
C2_NoPutWithoutAdId ==
  (WasLog /\ req.body.kind # "bad" /\ StrOr(req.body.ad_id, <<>>) = <<>>)
    => NoPut /\ ops = <<>> /\ StoreUntouched

(***************************************************************************)
(* C3.  GET /stats without the right bearer token is answered 401 and      *)
(* touches no store.                                                       *)
(***************************************************************************)
\* C3: every GET /stats whose Authorization header is not exactly
\* "Bearer <secret>", and every GET /stats while the secret is unset or empty,
\* is answered 401 whatever its days parameter, and its handler issues no
\* get, put or list.
C3_Unauthorized401 ==
  (WasStats /\ (\/ secret = Absent
                \/ secret[1] = <<>>
                \/ req.auth = Absent
                \/ req.auth[1] # Bearer \o secret[1]))
    => resp.status = 401 /\ resp.text = "unauthorized" /\ ops = <<>> /\ StoreUntouched

\* with no secret configured, "Bearer undefined" and a days parameter was
\* answered 401 over a store that holds counters
C3_Witness ==
  /\ WasStats /\ secret = Absent
  /\ req.auth = Some(Bearer \o <<"u", "n", "d", "e", "f", "i", "n", "e", "d">>)
  /\ req.days = Some(<<"2">>)
  /\ resp.status = 401 /\ ops = <<>> /\ store = ExampleStore

(***************************************************************************)
(* C8.  Every other method and path is answered 404 and touches no store.  *)
(***************************************************************************)
\* C8: every request that is neither POST /log nor GET /stats is answered
\* 404, GET /log and POST /stats and requests with the right bearer token
\* included, and its handler issues no store operation: the store is as it was.
C8_NotFound ==
  (req.method # "NONE" /\ ~WasLog /\ ~WasStats)
    => resp.status = 404 /\ resp.text = "not found" /\ ops = <<>> /\ StoreUntouched

\* POST /stats with the right bearer token was answered 404
C8_Witness ==
  /\ req.method = "POST" /\ req.path = StatsPath
  /\ secret = Some(Token) /\ req.auth = Some(Bearer \o Token)
  /\ resp.status = 404 /\ store = ExampleStore

(***************************************************************************)
(* What a client sent, read off the recorded request: the first n          *)
(* characters of a string, a field that may be absent, a small integer.    *)
(***************************************************************************)
FirstChars(s, n) == SubSeq(s, 1, IF Len(s) < n THEN Len(s) ELSE n)

Sent(f) == IF f = Absent THEN <<>> ELSE f[1]

\* the JSON record of the fields of an event, cut to 80, 80 and 300 characters
TripleOf(e) ==
  MetaJson(FirstChars(Sent(e.genre), 80), FirstChars(Sent(e.page_id), 80),
           FirstChars(Sent(e.page_url), 300))

\* an integer below 10^8 as a TLC integer
Small(x) == IF x.neg THEN -x.lo ELSE x.lo

Gets == SelectSeq(ops, IsGet)

\* the prefixes the handler listed
Listed == {ops[i].key : i \in {j \in 1..Len(ops) : ops[j].op = "list"}}

\* the prefixes of the d dates from `today` back
WindowPrefixes(today, d) == {ClickPrefix(DayStr(today - i)) : i \in 0..(d - 1)}

(***************************************************************************)
(* C4.  by_ad_id maps the ad_ids of the window to the sums of their        *)
(* counters.                                                               *)
(***************************************************************************)
\* the keys of the counters of the d dates from `today` back
WindowKeys(st, today, d) ==
  {k \in DOMAIN st : FirstChars(k, 17) \in WindowPrefixes(today, d)}

AdOfKey(k) == SubSeq(k, 18, Len(k))

\* the sum of the counters of ad over the dates today - i, ..., today
RECURSIVE WindowSum(_, _, _, _)
WindowSum(st, today, ad, i) ==
  IF i < 0 THEN 0
  ELSE Small(CounterInt(st, ClickKey(DayStr(today - i), ad))) + WindowSum(st, today, ad, i - 1)

\* C4: the by_ad_id of every authorized GET /stats maps exactly the ad_ids
\* that have a counter key on one of the d most recent dates to the sum of
\* those counters, d being the reported window; each of those keys is read
\* exactly once whatever the page size, and no other key is read.
C4_StatsSums ==
  (WasStats /\ resp.status = 200)
    => /\ resp.by_ad_id =
            [ad \in {AdOfKey(k) : k \in WindowKeys(before, req.day, resp.days)} |->
               JsNum(Num(WindowSum(before, req.day, ad, resp.days - 1)))]
       /\ {Gets[i].key : i \in 1..Len(Gets)} = WindowKeys(before, req.day, resp.days)
       /\ Len(Gets) = Cardinality(WindowKeys(before, req.day, resp.days))

\* the part of C4 that holds of every authorized GET /stats: each counter key
\* of the window is read exactly once, and no other key, at every page size
C4_EveryKeyOnce ==
  (WasStats /\ resp.status = 200)
    => /\ {Gets[i].key : i \in 1..Len(Gets)} = WindowKeys(before, req.day, resp.days)
       /\ Len(Gets) = Cardinality(WindowKeys(before, req.day, resp.days))

(***************************************************************************)
(* C5.  days=0 is days=1.                                                  *)
(***************************************************************************)
\* C5: an authorized GET /stats?days=0 reports days = 1, lists only today's
\* date, and answers what GET /stats?days=1 answers on the same store.
C5_ZeroIsOne ==
  (WasStats /\ resp.status = 200 /\ req.days = Some(<<"0">>))
    => /\ resp.days = 1
       /\ Listed = {ClickPrefix(DayStr(req.day))}
       /\ \A ps \in 1..MaxPage :
            resp = Fetch(Request("GET", StatsPath, req.auth, Some(<<"1">>), req.body),
                         before, req.day, secret, ps).resp

(***************************************************************************)
(* C6.  The window is the days parameter clamped to 1..30, 7 by default.   *)
(***************************************************************************)
\* a sign, if any, and then decimal digits and nothing else
IsIntegerText(s) ==
  /\ s # <<>>
  /\ LET b == IF Head(s) \in {"-", "+"} THEN Tail(s) ELSE s
     IN  b # <<>> /\ \A i \in 1..Len(b) : IsDigit(b[i])

\* white space, a sign, if any, and then a decimal digit
HasLeadingInteger(s) ==
  LET t == SkipSpace(s)
      b == IF t # <<>> /\ Head(t) \in {"-", "+"} THEN Tail(t) ELSE t
  IN  b # <<>> /\ IsDigit(Head(b))

\* what the window is if the parameter spells the integer n
Clamped(n, d) ==
  /\ n > 30 => d = 30
  /\ n < 0 => d = 1
  /\ n \in 1..30 => d = n

\* the handler listed the d dates from the day of the request back, no other
VisitsDates(d) == Listed = WindowPrefixes(req.day, d) /\ Cardinality(Listed) = d

\* C6 as stated: the window an authorized GET /stats reports is in 1..30; it
\* is 7 if the days parameter is absent or is not an integer, 30 if it is an
\* integer above 30, 1 if it is a negative integer, and the parameter itself
\* if that is an integer from 1 to 30; the scan visits exactly that many dates.
C6_AsStated ==
  (WasStats /\ resp.status = 200)
    => /\ resp.days \in 1..30
       /\ (req.days = Absent \/ ~IsIntegerText(Sent(req.days))) => resp.days = 7
       /\ (req.days # Absent /\ IsIntegerText(Sent(req.days)))
            => Clamped(Small(ExactInt(Sent(req.days))), resp.days)
       /\ VisitsDates(resp.days)

\* C6: the window an authorized GET /stats reports is in 1..30; it is 7 if
\* the days parameter is absent or does not begin, after white space and a
\* sign, with a decimal digit; otherwise, n being the integer its sign and
\* leading digits spell, whatever follows them, it is 30 if n > 30, 1 if
\* n < 0, and n if n is from 1 to 30; the scan visits exactly that many dates.
C6_Window ==
  (WasStats /\ resp.status = 200)
    => /\ resp.days \in 1..30
       /\ (req.days = Absent \/ ~HasLeadingInteger(Sent(req.days))) => resp.days = 7
       /\ (req.days # Absent /\ HasLeadingInteger(Sent(req.days)))
            => Clamped(Small(ExactInt(Sent(req.days))), resp.days)
       /\ VisitsDates(resp.days)

\* days=5abc was answered with a window of 5 days, all five listed
C6_Witness ==
  /\ WasStats /\ resp.status = 200
  /\ req.days = Some(<<"5", "a", "b", "c">>)
  /\ resp.days = 5 /\ Cardinality(Listed) = 5

(***************************************************************************)
(* C7.  meta:<ad_id> is the triple of the last valid event of that ad_id.  *)
(***************************************************************************)
\* C7: for every ad_id that had a valid log event less than the metadata
\* lifetime ago, meta:<ad_id> exists and is the JSON of the truncated genre,
\* page_id and page_url of the last such event, an absent field being "".
C7_MetaIsLastEvent ==
  \A ad \in DOMAIN lastEvt :
    clock < lastEvt[ad].day + 30
      => /\ <<"m", "e", "t", "a", ":">> \o ad \in DOMAIN store
         /\ store[<<"m", "e", "t", "a", ":">> \o ad].val = TripleOf(lastEvt[ad])

\* an ad_id whose last event had no field, after an event that had all three:
\* its record holds three empty strings
C7_Witness ==
  \E ad \in DOMAIN lastEvt :
    /\ lastEvt[ad].prev # Absent
    /\ lastEvt[ad].prev[1].genre # Absent
    /\ lastEvt[ad].prev[1].page_id # Absent
    /\ lastEvt[ad].prev[1].page_url # Absent
    /\ lastEvt[ad].genre = Absent /\ lastEvt[ad].page_id = Absent
    /\ lastEvt[ad].page_url = Absent
    /\ MetaKey(ad) \in DOMAIN store
    /\ store[MetaKey(ad)].val = MetaJson(<<>>, <<>>, <<>>)

(***************************************************************************)
(* C9.  The keys use the first 120 characters of ad_id, the record the     *)
(* first 80, 80 and 300 characters of the fields.                          *)
(***************************************************************************)
\* the day bucket of the recorded request
SentDay == FirstChars(IF req.body.ts = Absent THEN NowISO(req.day) ELSE Sent(req.body.ts), 10)

SentCounterKey ==
  <<"c", "l", "i", "c", "k", ":">> \o SentDay \o <<":">> \o FirstChars(Sent(req.body.ad_id), 120)

SentMetaKey == <<"m", "e", "t", "a", ":">> \o FirstChars(Sent(req.body.ad_id), 120)

\* C9: every POST /log answered 200 reads and writes the counter named by the
\* first 120 characters of the ad_id it was sent and raises it by one, and
\* writes under the same 120 characters a record that holds the first 80, 80
\* and 300 characters of the genre, page_id and page_url it was sent.
C9_Truncation ==
  (WasLog /\ resp.status = 200)
    => /\ ops = <<Op("get", SentCounterKey), Op("put", SentCounterKey), Op("put", SentMetaKey)>>
       /\ SentCounterKey \in DOMAIN store
       /\ CounterInt(store, SentCounterKey) = IntPlus(CounterInt(before, SentCounterKey), 1)
       /\ clock < req.day + 30
            => /\ SentMetaKey \in DOMAIN store
               /\ store[SentMetaKey].val = TripleOf(req.body)

\* two events of one day whose ad_ids of 121 characters differ in the last:
\* the second raised the one counter from 1 to 2, and its fields, each one
\* character too long, were cut
C9_Witness ==
  /\ WasLog /\ resp.status = 200
  /\ req.body.ad_id = Some(X120z)
  /\ FirstChars(X120z, 120) \in DOMAIN lastEvt
  /\ lastEvt[FirstChars(X120z, 120)].prev # Absent
  /\ lastEvt[FirstChars(X120z, 120)].prev[1].ad_id = Some(X120y)
  /\ Len(Sent(req.body.genre)) = 81 /\ Len(Sent(req.body.page_url)) = 301
  /\ SentCounterKey \in DOMAIN before
  /\ before[SentCounterKey].val = <<"1">>
  /\ store[SentCounterKey].val = <<"2">>

(***************************************************************************)
(* C10.  Concurrent requests for one key may lose updates, and never count *)
(* too many.                                                               *)
(***************************************************************************)
AllDone == \A p \in Procs : pc[p] = "done"

\* the handlers that were given an ad_id
Valid == {p \in Procs : Sent(pbody[p].ad_id) # <<>>}

\* the valid handlers whose event has the counter key of p's
SameKey(p) == {q \in Valid : KeyOf(pbody[q]) = KeyOf(pbody[p])}

\* C10: once concurrently handled POST /log requests are all done, every
\* valid one has answered 200, and a counter that two or more of them wrote
\* holds no more than what it held at the start plus their number, under
\* every interleaving of their store steps and every starting value.
C10_NoOvercount ==
  AllDone
    => \A p \in Valid :
         /\ presp[p] = Response(200, "ok")
         /\ Cardinality(SameKey(p)) >= 2
              => IntLeq(CounterInt(store, KeyOf(pbody[p])),
                        IntPlus(CounterInt(store0, KeyOf(pbody[p])), Cardinality(SameKey(p))))

\* a lost update: every handler had the same key and answered 200, and the
\* counter, 4 at the start, holds 5
C10_Witness ==
  /\ AllDone
  /\ \A p \in Procs : SameKey(p) = Procs /\ presp[p] = Response(200, "ok")
  /\ \A p \in Procs : KeyOf(pbody[p]) \in DOMAIN store0
                        /\ store0[KeyOf(pbody[p])].val = <<"4">>
                        /\ store[KeyOf(pbody[p])].val = <<"5">>

====
